---- MODULE Spec2Model ----
(***************************************************************************)
(* Model of pearson-plus-extractor (src/src/main.rs): main, Extractor::new,*)
(* Extractor::run, get_image, get_texts and the annotation deserializers.  *)
(* The remote service, the PNG codec and the output file are the           *)
(* environment: every answer they can give is a nondeterministic input.    *)
(***************************************************************************)
EXTENDS Integers, Sequences, FiniteSets, TLC

\* ------------------------------------------------------------------ bounds
\* Stand-in for u32::MAX in `for i in 1..u32::MAX` (the range excludes it).
MaxIndex == 3
\* Longest cookie string tried.
MaxHeaderLen == 1

\* ------------------------------------------------------- program constants
PxPerMm == 12
CharMax == 1114111
SurrogateLo == 55296
SurrogateHi == 57343

\* --------------------------------------------------------------- inputs
\* Bytes a header value is built from: TAB, LF, 'A', DEL.
HeaderBytes == {9, 10, 65, 127}
HeaderStrings == UNION {[1..n -> HeaderBytes] : n \in 0..MaxHeaderLen}
CookieValues == HeaderStrings
\* Option<String>: the auth token may be absent.
TokenValues == {[some |-> FALSE, val |-> <<>>]}
                 \cup {[some |-> TRUE, val |-> s] : s \in {<<65>>, <<10>>}}

\* Pixel dimensions a served PNG may declare.
Dims == {<<12, 24>>, <<30, 12>>}

\* Body of an image response: has it a PNG signature and header (sig), what
\* the header declares (w, h), and is its pixel data decodable (data).
EmptyBody == [sig |-> FALSE, w |-> 0, h |-> 0, data |-> FALSE]
GoodBody(d) == [sig |-> TRUE, w |-> d[1], h |-> d[2], data |-> TRUE]
BadPixelsBody(d) == [sig |-> TRUE, w |-> d[1], h |-> d[2], data |-> FALSE]
ImageBodies == {EmptyBody} \cup {GoodBody(d) : d \in Dims}
                 \cup {BadPixelsBody(<<12, 24>>)}

\* Glyph runs: mt is the base matrix, cs the records (x, y, _, _, code point).
RunA == [mt |-> <<1, 0, 0, 1, 5, 6>>,
         cs |-> << <<10, 20, 0, 0, 65>>, <<11, 21, 0, 0, 55296>>,
                   <<12, 22, 0, 0, 66>> >>]
RunB == [mt |-> <<2, 0, 0, 2, 7, 8>>, cs |-> << <<30, 40, 0, 0, 67>> >>]
TextsValues == {<<RunA, RunB>>, <<RunB>>}

\* Text of an annotation response: is it a JSON object with a TextPageData
\* field (outer), is that field a string (isString), does the string parse as
\* {"texts": [...]} (inner), and the glyph runs it then holds.
Payload(o, s, n, t) == [outer |-> o, isString |-> s, inner |-> n, texts |-> t]
AnnotationTexts == {Payload(FALSE, FALSE, FALSE, <<>>),
                    Payload(TRUE, FALSE, FALSE, <<>>),
                    Payload(TRUE, TRUE, FALSE, <<>>)}
                     \cup {Payload(TRUE, TRUE, TRUE, t) : t \in TextsValues}

VARIABLES cookie, authToken, pc, i, outstanding, requests, imgRes, txtRes,
          served, pages, stdout, sink, saveCalls, error

vars == <<cookie, authToken, pc, i, outstanding, requests, imgRes, txtRes,
          served, pages, stdout, sink, saveCalls, error>>

\* ------------------------------------------------------------ Extractor::new
\* HeaderValue parsing: every byte is TAB or a visible ASCII character.
IsValidHeaderValue(s) ==
    \A k \in 1..Len(s) : s[k] = 9 \/ (s[k] >= 32 /\ s[k] < 127)

\* args.auth_token.unwrap_or_default()
UnwrapOrDefault(opt) == IF opt.some THEN opt.val ELSE <<>>

ExtractorNew_NoCookieCheck(c, t, buildOk) ==
    IF ~IsValidHeaderValue(t) THEN "config"
    ELSE IF ~buildOk THEN "config"
    ELSE "none"

\* Extractor::new: the three header inserts, then the client build.
ExtractorNew(c, t, buildOk) ==
    IF ~IsValidHeaderValue(c) THEN "config"
    ELSE IF ~IsValidHeaderValue(t) THEN "config"
    ELSE IF ~buildOk THEN "config"
    ELSE "none"

\* ------------------------------------------------------ responses, results
\* What the transport can answer to an image request: a failure of send() or
\* bytes(), or a body (whatever the status code: none is checked).
ImageResponses == {[ok |-> FALSE, body |-> EmptyBody]}
                    \cup {[ok |-> TRUE, body |-> b] : b \in ImageBodies}
TextsResponses == {[ok |-> FALSE, text |-> Payload(FALSE, FALSE, FALSE, <<>>)]}
                    \cup {[ok |-> TRUE, text |-> p] : p \in AnnotationTexts}

NoImage == [st |-> "none", idx |-> 0, body |-> EmptyBody]
NoTexts == [st |-> "none", idx |-> 0, kind |-> "none", data |-> <<>>]

\* get_image: Result<Vec<u8>> for the page asked.
GetImage(page, resp) ==
    IF resp.ok THEN [st |-> "ok", idx |-> page, body |-> resp.body]
    ELSE [st |-> "err", idx |-> page, body |-> EmptyBody]

\* deserialize_text_page_data: the field as a String, then a second parse.
DeserializeTextPageData(text) ==
    IF ~text.isString THEN [ok |-> FALSE, kind |-> "texts_outer", data |-> <<>>]
    ELSE IF ~text.inner THEN [ok |-> FALSE, kind |-> "texts_inner", data |-> <<>>]
    ELSE [ok |-> TRUE, kind |-> "none", data |-> text.texts]

\* sonic_rs::from_str::<Annotation>
FromStrAnnotation(text) ==
    IF ~text.outer THEN [ok |-> FALSE, kind |-> "texts_outer", data |-> <<>>]
    ELSE DeserializeTextPageData(text)

\* get_texts: Result<TextPageData> for the page asked.
GetTexts(page, resp) ==
    IF ~resp.ok
    THEN [st |-> "err", idx |-> page, kind |-> "texts_fetch", data |-> <<>>]
    ELSE LET a == FromStrAnnotation(resp.text)
         IN IF a.ok
            THEN [st |-> "ok", idx |-> page, kind |-> "none", data |-> a.data]
            ELSE [st |-> "err", idx |-> page, kind |-> a.kind, data |-> <<>>]

\* PngDecoder::new reads the signature and the header only.
PngDecoderNew(body) == body.sig /\ body.w > 0 /\ body.h > 0
Dimensions(body) == <<body.w, body.h>>
\* Image::try_from reads the pixel data.
ImageTryFrom(body) == body.data

\* ------------------------------------------------------------- page geometry
RECURSIVE Gcd(_, _)
Gcd(a, b) == IF b = 0 THEN a ELSE Gcd(b, a % b)
\* Mm(px as f32 / 12.0), kept as the reduced fraction <<num, den>>.
Mm(px) == LET g == Gcd(px, PxPerMm) IN <<px \div g, PxPerMm \div g>>
PageSize(d) == <<Mm(d[1]), Mm(d[2])>>

\* A page of the document: its position, the image request whose header
\* sized it, its size, whether the image was drawn, and the layer's text
\* operations.
NewPage(n, from, d) ==
    [index |-> n, from |-> from, dims |-> d, size |-> PageSize(d),
     image |-> FALSE, ops |-> <<>>]

AddPage_Front(doc, from, d) == <<NewPage(Len(doc), from, d)>> \o doc

AddPage_FirstSize(doc, from, d) ==
    IF doc = <<>> THEN Append(doc, NewPage(Len(doc), from, d))
    ELSE Append(doc, [NewPage(Len(doc), from, d) EXCEPT !.size = doc[1].size])

\* PdfDocument::new / document.add_page: a new last page sized to the image.
AddPage(doc, from, d) == Append(doc, NewPage(Len(doc), from, d))

\* image.add_to_layer on the last page.
AddImage(doc) == [doc EXCEPT ![Len(doc)].image = TRUE]
\* layer operations on the last page.
AddOps(doc, o) == [doc EXCEPT ![Len(doc)].ops = @ \o o]

\* ---------------------------------------------------------------- text layer
NoMatrix == <<0, 0, 0, 0, 0, 0>>
Op(name, m, cp) == [op |-> name, m |-> m, cp |-> cp]
\* char::from_u32
IsChar(cp) == cp >= 0 /\ cp <= CharMax /\ ~(cp >= SurrogateLo /\ cp <= SurrogateHi)

RECURSIVE StreamOps_StopAtInvalid(_, _, _)
StreamOps_StopAtInvalid(matrix, cs, k) ==
    IF k > Len(cs) THEN <<>>
    ELSE LET m == [matrix EXCEPT ![5] = cs[k][1], ![6] = cs[k][2]]
         IN IF IsChar(cs[k][5])
            THEN <<Op("set_text_matrix", m, 0), Op("write_text", NoMatrix, cs[k][5])>>
                   \o StreamOps_StopAtInvalid(m, cs, k + 1)
            ELSE <<Op("set_text_matrix", m, 0)>>

\* The inner loop over data.stream, matrix being the run's mutable copy.
RECURSIVE StreamOps(_, _, _)
StreamOps(matrix, cs, k) ==
    IF k > Len(cs) THEN <<>>
    ELSE LET m == [matrix EXCEPT ![5] = cs[k][1], ![6] = cs[k][2]]
         IN <<Op("set_text_matrix", m, 0)>>
              \o (IF IsChar(cs[k][5]) THEN <<Op("write_text", NoMatrix, cs[k][5])>>
                  ELSE <<>>)
              \o StreamOps(m, cs, k + 1)

\* The outer loop over texts.data.
RECURSIVE TextOps(_, _)
TextOps(data, r) ==
    IF r > Len(data) THEN <<>>
    ELSE StreamOps(data[r].mt, data[r].cs, 1) \o TextOps(data, r + 1)

BeginText == <<Op("begin_text_section", NoMatrix, 0), Op("set_font", NoMatrix, 0),
               Op("set_text_rendering_mode", NoMatrix, 0)>>
EndText == <<Op("end_text_section", NoMatrix, 0)>>

\* ------------------------------------------------------------ Extractor::run
Outcome(next, err, doc) == [pc |-> next, error |-> err, pages |-> doc]

BootStep_DecodeEnds(img) ==
    IF img.st = "err" THEN Outcome("exit", "image_fetch", <<>>)
    ELSE IF ~PngDecoderNew(img.body) THEN Outcome("saving", "none", <<>>)
    ELSE LET doc == AddPage(<<>>, img.idx, Dimensions(img.body))
         IN IF ~ImageTryFrom(img.body) THEN Outcome("saving", "none", <<>>)
            ELSE Outcome("loop", "none", AddImage(doc))

\* Page 0: `?` on the fetch, unwrap on both decode stages, no text layer.
BootStep(img) ==
    IF img.st = "err" THEN Outcome("exit", "image_fetch", <<>>)
    ELSE IF ~PngDecoderNew(img.body) THEN Outcome("exit", "image_header", <<>>)
    ELSE LET doc == AddPage(<<>>, img.idx, Dimensions(img.body))
         IN IF ~ImageTryFrom(img.body) THEN Outcome("exit", "image_convert", doc)
            ELSE Outcome("loop", "none", AddImage(doc))

\* The composited page: image, then the invisible text section.
Composite(doc, data) ==
    AddOps(AddOps(AddOps(doc, BeginText), TextOps(data, 1)), EndText)

StreamStep_FetchEnds(img, txt, doc) ==
    IF img.st = "err" THEN Outcome("saving", "none", doc)
    ELSE IF ~PngDecoderNew(img.body) THEN Outcome("saving", "none", doc)
    ELSE LET doc1 == AddPage(doc, img.idx, Dimensions(img.body))
         IN IF ~ImageTryFrom(img.body) THEN Outcome("exit", "image_convert", doc1)
            ELSE IF txt.st = "err"
                 THEN Outcome("exit", txt.kind, AddOps(AddImage(doc1), BeginText))
                 ELSE Outcome("loop", "none", Composite(AddImage(doc1), txt.data))

StreamStep_TextsOptional(img, txt, doc) ==
    IF img.st = "err" THEN Outcome("exit", "image_fetch", doc)
    ELSE IF ~PngDecoderNew(img.body) THEN Outcome("saving", "none", doc)
    ELSE LET doc1 == AddPage(doc, img.idx, Dimensions(img.body))
         IN IF ~ImageTryFrom(img.body) THEN Outcome("exit", "image_convert", doc1)
            ELSE Outcome("loop", "none", Composite(AddImage(doc1), txt.data))

StreamStep_SaveOnError(img, txt, doc) ==
    IF img.st = "err" THEN Outcome("saving", "image_fetch", doc)
    ELSE IF ~PngDecoderNew(img.body) THEN Outcome("saving", "none", doc)
    ELSE LET doc1 == AddPage(doc, img.idx, Dimensions(img.body))
         IN IF ~ImageTryFrom(img.body) THEN Outcome("saving", "image_convert", doc1)
            ELSE IF txt.st = "err"
                 THEN Outcome("saving", txt.kind, AddOps(AddImage(doc1), BeginText))
                 ELSE Outcome("loop", "none", Composite(AddImage(doc1), txt.data))

\* One iteration's body after the join: `image?` is evaluated first, the
\* header decides between a page and `break`, and `Image::try_from(image)?`
\* and `texts?` return the error once the page has been added.
StreamStep(img, txt, doc) ==
    IF img.st = "err" THEN Outcome("exit", "image_fetch", doc)
    ELSE IF ~PngDecoderNew(img.body) THEN Outcome("saving", "none", doc)
    ELSE LET doc1 == AddPage(doc, img.idx, Dimensions(img.body))
         IN IF ~ImageTryFrom(img.body) THEN Outcome("exit", "image_convert", doc1)
            ELSE IF txt.st = "err"
                 THEN Outcome("exit", txt.kind, AddOps(AddImage(doc1), BeginText))
                 ELSE Outcome("loop", "none", Composite(AddImage(doc1), txt.data))

ProgressLine_ZeroBased(n) == [line |-> "Downloaded page", n |-> n - 1]

ProgressLine_Next(n) == [line |-> "Downloaded page", n |-> n + 1]

\* println!("Downloaded page {:04}.", i)
ProgressLine(n) == [line |-> "Downloaded page", n |-> n]
SavingLine == [line |-> "Saving the document", n |-> 0]

Request(kind, page) == [kind |-> kind, idx |-> page]
NoSink == [exists |-> FALSE, old |-> FALSE, opened |-> FALSE, bytes |-> <<>>]
OldSink == [exists |-> TRUE, old |-> TRUE, opened |-> FALSE, bytes |-> <<>>]

\* ---------------------------------------------------------------------- Init
Init ==
    /\ cookie \in CookieValues
    /\ authToken \in TokenValues
    /\ pc = "main"
    /\ i = 0
    /\ outstanding = {}
    /\ requests = <<>>
    /\ imgRes = NoImage
    /\ txtRes = NoTexts
    /\ served = [img |-> <<>>, txt |-> <<>>, order |-> <<>>]
    /\ pages = <<>>
    /\ stdout = <<>>
    /\ sink \in {NoSink, OldSink}
    /\ saveCalls = 0
    /\ error = "none"

\* ------------------------------------------------------------------- actions
\* main: Extractor::new(...).unwrap()
New ==
    /\ pc = "main"
    /\ \E buildOk \in BOOLEAN :
         LET e == ExtractorNew(cookie, UnwrapOrDefault(authToken), buildOk)
         IN /\ error' = e
            /\ pc' = IF e = "none" THEN "create" ELSE "exit"
    /\ UNCHANGED <<cookie, authToken, i, outstanding, requests, imgRes, txtRes,
                   served, pages, stdout, sink, saveCalls>>

\* main: File::create(args.output_path).unwrap() creates or truncates.
FileCreate ==
    /\ pc = "create"
    /\ \E createOk \in BOOLEAN :
         IF createOk
         THEN /\ sink' = [exists |-> TRUE, old |-> FALSE, opened |-> TRUE,
                          bytes |-> <<>>]
              /\ pc' = "run"
              /\ error' = error
         ELSE /\ sink' = sink
              /\ pc' = "exit"
              /\ error' = "create"
    /\ UNCHANGED <<cookie, authToken, i, outstanding, requests, imgRes, txtRes,
                   served, pages, stdout, saveCalls>>

BootRequest_WithTexts ==
    /\ pc = "run"
    /\ outstanding' = {Request("image", 0), Request("texts", 0)}
    /\ requests' = requests \o <<Request("image", 0), Request("texts", 0)>>
    /\ pc' = "boot_wait"
    /\ UNCHANGED <<cookie, authToken, i, imgRes, txtRes, served, pages, stdout,
                   sink, saveCalls, error>>

\* run: self.get_image(product_id, uuid, 0) is sent.
BootRequest ==
    /\ pc = "run"
    /\ outstanding' = {Request("image", 0)}
    /\ requests' = Append(requests, Request("image", 0))
    /\ pc' = "boot_wait"
    /\ UNCHANGED <<cookie, authToken, i, imgRes, txtRes, served, pages, stdout,
                   sink, saveCalls, error>>

\* run: the answer for page 0 arrives and lines 73-86 run.
BootResponse ==
    /\ pc = "boot_wait"
    /\ Request("image", 0) \in outstanding
    /\ \E resp \in ImageResponses :
         LET img == GetImage(0, resp)
             o == BootStep(img)
         IN /\ served' = [served EXCEPT !.img = Append(@, img),
                                        !.order = Append(@, Request("image", 0))]
            /\ pages' = o.pages
            /\ error' = o.error
            /\ pc' = o.pc
            /\ i' = IF o.pc = "loop" THEN 1 ELSE i
    /\ outstanding' = {}
    /\ UNCHANGED <<cookie, authToken, requests, imgRes, txtRes, stdout, sink,
                   saveCalls>>

PrintProgress_Inclusive ==
    /\ pc = "loop"
    /\ i <= MaxIndex
    /\ stdout' = Append(stdout, ProgressLine(i))
    /\ pc' = "issue"
    /\ UNCHANGED <<cookie, authToken, i, outstanding, requests, imgRes, txtRes,
                   served, pages, sink, saveCalls, error>>

\* run: the head of `for i in 1..u32::MAX` with a next value, then println!.
PrintProgress ==
    /\ pc = "loop"
    /\ i < MaxIndex
    /\ stdout' = Append(stdout, ProgressLine(i))
    /\ pc' = "issue"
    /\ UNCHANGED <<cookie, authToken, i, outstanding, requests, imgRes, txtRes,
                   served, pages, sink, saveCalls, error>>

\* run: the range is exhausted, the loop ends without a break.
LoopExhausted ==
    /\ pc = "loop"
    /\ i >= MaxIndex
    /\ pc' = "saving"
    /\ UNCHANGED <<cookie, authToken, i, outstanding, requests, imgRes, txtRes,
                   served, pages, stdout, sink, saveCalls, error>>

\* run: join! polls both futures, sending the two requests of index i.
IssuePair ==
    /\ pc = "issue"
    /\ outstanding' = {Request("image", i), Request("texts", i)}
    /\ requests' = requests \o <<Request("image", i), Request("texts", i)>>
    /\ imgRes' = NoImage
    /\ txtRes' = NoTexts
    /\ pc' = "join"
    /\ UNCHANGED <<cookie, authToken, i, served, pages, stdout, sink, saveCalls,
                   error>>

\* get_image(i) completes.
ImageResponse ==
    /\ pc = "join"
    /\ Request("image", i) \in outstanding
    /\ \E resp \in ImageResponses :
         LET img == GetImage(i, resp)
         IN /\ imgRes' = img
            /\ served' = [served EXCEPT !.img = Append(@, img),
                                        !.order = Append(@, Request("image", i))]
    /\ outstanding' = outstanding \ {Request("image", i)}
    /\ UNCHANGED <<cookie, authToken, pc, i, requests, txtRes, pages, stdout,
                   sink, saveCalls, error>>

\* get_texts(i) completes, the payload parsed inside it.
TextsResponse ==
    /\ pc = "join"
    /\ Request("texts", i) \in outstanding
    /\ \E resp \in TextsResponses :
         LET txt == GetTexts(i, resp)
         IN /\ txtRes' = txt
            /\ served' = [served EXCEPT !.txt = Append(@, txt),
                                        !.order = Append(@, Request("texts", i))]
    /\ outstanding' = outstanding \ {Request("texts", i)}
    /\ UNCHANGED <<cookie, authToken, pc, i, requests, imgRes, pages, stdout,
                   sink, saveCalls, error>>

Join_Early ==
    /\ pc = "join"
    /\ Request("image", i) \notin outstanding
    /\ LET o == StreamStep(imgRes, txtRes, pages)
       IN /\ pages' = o.pages
          /\ error' = o.error
          /\ pc' = o.pc
          /\ i' = IF o.pc = "loop" THEN i + 1 ELSE i
    /\ UNCHANGED <<cookie, authToken, outstanding, requests, imgRes, txtRes,
                   served, stdout, sink, saveCalls>>

\* run: join! returns once both futures have completed; lines 93-117 run.
Join ==
    /\ pc = "join"
    /\ outstanding = {}
    /\ LET o == StreamStep(imgRes, txtRes, pages)
       IN /\ pages' = o.pages
          /\ error' = o.error
          /\ pc' = o.pc
          /\ i' = IF o.pc = "loop" THEN i + 1 ELSE i
    /\ UNCHANGED <<cookie, authToken, outstanding, requests, imgRes, txtRes,
                   served, stdout, sink, saveCalls>>

\* run: println!("Saving the document. ...")
PrintSaving ==
    /\ pc = "saving"
    /\ stdout' = Append(stdout, SavingLine)
    /\ pc' = "serialize"
    /\ UNCHANGED <<cookie, authToken, i, outstanding, requests, imgRes, txtRes,
                   served, pages, sink, saveCalls, error>>

\* run: document.save(&mut BufWriter::new(output))?; a failed save may have
\* written any part of the document.
Serialize ==
    /\ pc = "serialize"
    /\ saveCalls' = saveCalls + 1
    /\ \E saveOk \in BOOLEAN :
         IF saveOk
         THEN /\ sink' = [sink EXCEPT !.bytes = pages]
              /\ error' = error
         ELSE /\ \E n \in 0..(Len(pages) - 1) :
                    sink' = [sink EXCEPT !.bytes = SubSeq(pages, 1, n)]
              /\ error' = "sink"
    /\ pc' = "exit"
    /\ UNCHANGED <<cookie, authToken, i, outstanding, requests, imgRes, txtRes,
                   served, pages, stdout>>

Next ==
    \/ New
    \/ FileCreate
    \/ BootRequest
    \/ BootResponse
    \/ PrintProgress
    \/ LoopExhausted
    \/ IssuePair
    \/ ImageResponse
    \/ TextsResponse
    \/ Join
    \/ PrintSaving
    \/ Serialize

Spec == Init /\ [][Next]_vars

\* The single thread takes its next step whenever it has one, and every
\* request issued is eventually answered.
FairSpec == Spec /\ WF_vars(Next)

\* ------------------------------------------------------------------- phases
\* Errors that end Extractor::run before the loop has ended.
RunErrors == {"image_fetch", "image_header", "image_convert",
              "texts_fetch", "texts_outer", "texts_inner"}
Bootstrapping == pc \in {"run", "boot_wait"}
Streaming == pc \in {"loop", "issue", "join"}
\* The loop has ended by `break` or by exhaustion: lines 119-121.
Finished ==
    /\ error \in {"none", "sink"}
    /\ pc \in {"saving", "serialize"} \/ (pc = "exit" /\ saveCalls = 1)
\* run returned an error or panicked in Bootstrapping or Streaming.
Aborted == pc = "exit" /\ error \in RunErrors
\* main: every failure is an unwrap panic (status 101), success is 0.
ExitStatus == IF error = "none" THEN 0 ELSE 101

\* Both stages that turn bytes into a drawable image succeed.
Decodes(body) == PngDecoderNew(body) /\ ImageTryFrom(body)
\* The image / annotation result served for index k (once it has arrived).
ImgOf(k) == served.img[k + 1]
TxtOf(k) == served.txt[k]
HasImg(k) == Len(served.img) >= k + 1
HasTxt(k) == k >= 1 /\ Len(served.txt) >= k
StreamIndices == 1..(MaxIndex + 1)

\* A page whose compositing completed: image drawn and, past page 0, the
\* text section closed.
IsComplete(p) ==
    /\ p.image
    /\ p.index >= 1 => (p.ops # <<>> /\ p.ops[Len(p.ops)].op = "end_text_section")
CompletePages == Cardinality({n \in 1..Len(pages) : IsComplete(pages[n])})
PairPages == Cardinality({n \in 1..Len(pages) :
                            pages[n].index >= 1 /\ IsComplete(pages[n])})
IsProgress(l) == l.line = "Downloaded page"
NumProgress == Cardinality({k \in 1..Len(stdout) : IsProgress(stdout[k])})

\* -------------------------------------------------------------------- claims
\* The hypothesis of C1 for index K: images 0..K fetched, 0..K-1 decode,
\* annotations 1..K-1 fetched and parsed, image K does not decode.
C1_Hypothesis(K) ==
    /\ HasImg(K)
    /\ \A j \in 0..K : ImgOf(j).st = "ok"
    /\ \A j \in 0..(K - 1) : Decodes(ImgOf(j).body)
    /\ \A j \in 1..(K - 1) : HasTxt(j) /\ TxtOf(j).st = "ok"
    /\ ~Decodes(ImgOf(K).body)

\* C1: whenever images 0..K are fetched, 0..K-1 decode with their
\* annotations parsed and image K fails to decode, the run that has ended
\* returned Ok, serialized once, and the sink holds exactly the K pages of
\* indices 0..K-1.
C1_FinishedWithKPages ==
    \A K \in StreamIndices :
        (pc = "exit" /\ C1_Hypothesis(K)) =>
            /\ error = "none"
            /\ saveCalls = 1
            /\ Len(sink.bytes) = K
            /\ \A n \in 1..K : sink.bytes[n].from = n - 1

\* C2: once the answer for page 0 is a fetch failure or bytes that do not
\* decode, the run is Aborted: only the image of index 0 was ever requested,
\* nothing was serialized, the sink holds no page and the exit status is a
\* failure; the loop's end (Finished) is never entered.
C2_BootFailureAborts ==
    (HasImg(0) /\ (ImgOf(0).st = "err" \/ ~Decodes(ImgOf(0).body))) =>
        /\ Aborted
        /\ ~Finished
        /\ requests = <<Request("image", 0)>>
        /\ saveCalls = 0
        /\ sink.bytes = <<>>
        /\ ExitStatus # 0

C2_Witness ==
    /\ pc = "exit"
    /\ HasImg(0) /\ ImgOf(0).st = "ok" /\ ~PngDecoderNew(ImgOf(0).body)
    /\ error = "image_header"

\* Page n of the document sits at position n, was sized from the header of
\* the image answered for index n, and is the n-th image answer received.
C3_InOrder ==
    \A n \in 1..Len(pages) :
        /\ pages[n].index = n - 1
        /\ pages[n].from = n - 1
        /\ HasImg(n - 1)
        /\ ImgOf(n - 1).idx = n - 1
        /\ pages[n].dims = Dimensions(ImgOf(n - 1).body)

C3_AppendOnly ==
    /\ Len(pages') >= Len(pages)
    /\ \A n \in 1..Len(pages) : pages'[n] = pages[n]

\* C3: the document is append-only and, in every state, its pages are in
\* increasing index order without gaps, page n built from the image fetched
\* for index n, whatever order the two answers of an index arrive in.
C3_OrderedAppendOnly == [](C3_InOrder) /\ [][C3_AppendOnly]_vars

\* Three pages, the annotations of index 1 having arrived before its image
\* and the image of index 2 before its annotations.
C3_Witness ==
    /\ Len(pages) = 3
    /\ IsComplete(pages[3])
    /\ \E a, b \in 1..Len(served.order) :
          /\ a < b
          /\ served.order[a] = Request("texts", 1)
          /\ served.order[b] = Request("image", 1)
    /\ \E a, b \in 1..Len(served.order) :
          /\ a < b
          /\ served.order[a] = Request("image", 2)
          /\ served.order[b] = Request("texts", 2)

\* C4 as stated: the sink is created, truncated or written only once
\* Finished is reached, and is untouched in every Aborted run.
C4_SinkUntouchedUntilFinished ==
    /\ sink.opened => Finished
    /\ Aborted => ~sink.opened

\* C4 amended: main creates (and truncates) the sink before the run issues
\* any request, but page data is written to it only by the save of Finished;
\* in every Aborted run the sink has been created and holds no byte.
C4_NoPageDataUntilFinished ==
    /\ sink.bytes # <<>> => (Finished /\ saveCalls = 1)
    /\ requests # <<>> => (sink.opened /\ ~sink.old)
    /\ Aborted => (sink.opened /\ ~sink.old /\ sink.bytes = <<>> /\ saveCalls = 0)

C4_Witness ==
    /\ Aborted
    /\ error = "texts_fetch"
    /\ Len(pages) >= 2
    /\ sink.opened /\ sink.bytes = <<>>

\* C5 as stated: when the image fetch of an index K >= 1 itself fails, the
\* run that has ended is Finished without error and has serialized the K
\* pages assembled so far.
C5_FetchFailureEndsDocument ==
    \A K \in StreamIndices :
        (pc = "exit" /\ HasImg(K) /\ ImgOf(K).st = "err") =>
            /\ error = "none"
            /\ saveCalls = 1
            /\ Len(sink.bytes) = K

\* C5 amended: a failure of the image fetch itself at an index K >= 1 is
\* fatal and not the termination signal: once the pair of K is joined the
\* run is Aborted with the fetch error, the K pages assembled are discarded
\* and nothing is serialized.
C5_FetchFailureIsFatal ==
    \A K \in StreamIndices :
        (HasImg(K) /\ ImgOf(K).st = "err") =>
            \/ (pc = "join" /\ i = K /\ saveCalls = 0)
            \/ /\ Aborted
               /\ error = "image_fetch"
               /\ Len(pages) = K
               /\ saveCalls = 0
               /\ sink.bytes = <<>>

C5_Witness ==
    /\ pc = "exit"
    /\ HasImg(2) /\ ImgOf(2).st = "err"
    /\ error = "image_fetch"
    /\ Len(pages) = 2

\* C6: when the image of an index K >= 1 is fetched and decodes while the
\* annotation fetch or either level of its parsing fails, the run, once the
\* pair is joined, is Aborted with the annotation's error and the document is
\* never serialized; page K is not kept as a page without text.
C6_AnnotationFailureIsFatal ==
    \A K \in StreamIndices :
        (HasImg(K) /\ HasTxt(K) /\ ImgOf(K).st = "ok" /\ Decodes(ImgOf(K).body)
            /\ TxtOf(K).st = "err") =>
            \/ (pc = "join" /\ i = K /\ saveCalls = 0)
            \/ /\ Aborted
               /\ error = TxtOf(K).kind
               /\ saveCalls = 0
               /\ sink.bytes = <<>>
               /\ CompletePages = K

C6_Witness ==
    /\ pc = "exit"
    /\ HasImg(2) /\ HasTxt(2)
    /\ Decodes(ImgOf(2).body)
    /\ TxtOf(2).kind = "texts_inner"
    /\ error = "texts_inner"

\* C7: an image answer of an index K >= 1 that was fetched but fails either
\* decode stage never leads to Aborted.
C7_DecodeErrorNeverAborts ==
    \A K \in StreamIndices :
        (HasImg(K) /\ ImgOf(K).st = "ok" /\ ~Decodes(ImgOf(K).body)) => ~Aborted

\* C8 as stated: a progress line is emitted only after a pair (image and
\* annotations) has been fetched, composited and appended, one line per
\* such page.
C8_ProgressAfterPair == NumProgress <= PairPages

\* C8 amended: the progress line numbered n is emitted at the head of
\* Streaming step n, before the requests of index n are issued and when the
\* document holds n composited pages (indices 0..n-1, for n = 1 the bootstrap
\* page alone); lines are numbered 1, 2, ... consecutively and never outnumber
\* the composited pages; the 'saving' line is emitted at most once, after the
\* last progress line and before serialization.
C8_ProgressAtStepHead ==
    /\ \A k \in 1..Len(stdout) :
          /\ IsProgress(stdout[k]) => (stdout[k].n = k /\ k <= CompletePages)
          /\ stdout[k] = SavingLine => k = Len(stdout)
    /\ \A k \in 1..Len(requests) :
          requests[k].idx >= 1 => NumProgress >= requests[k].idx
    /\ pc = "issue" => (NumProgress = i /\ Len(pages) = i /\ CompletePages = i)
    /\ saveCalls >= 1 => (stdout # <<>> /\ stdout[Len(stdout)] = SavingLine)

C8_Witness ==
    /\ pc = "exit"
    /\ saveCalls = 1
    /\ NumProgress = 2
    /\ Len(sink.bytes) = 2
    /\ stdout[Len(stdout)] = SavingLine

\* C9: when the cookie or the auth token is not a valid header value, the
\* process fails in Extractor::new: no request is ever issued and the output
\* file is never created or truncated.
C9_InvalidHeaderFailsFast ==
    (~IsValidHeaderValue(cookie) \/ ~IsValidHeaderValue(UnwrapOrDefault(authToken))) =>
        /\ pc = "main" \/ (pc = "exit" /\ error = "config" /\ ExitStatus # 0)
        /\ requests = <<>>
        /\ ~sink.opened
        /\ sink \in {NoSink, OldSink}

C9_Witness ==
    /\ pc = "exit"
    /\ error = "config"
    /\ ~IsValidHeaderValue(cookie)
    /\ IsValidHeaderValue(UnwrapOrDefault(authToken))

RECURSIVE DrawsOf(_, _)
DrawsOf(ops, p) ==
    IF p > Len(ops) THEN <<>>
    ELSE (IF ops[p].op = "write_text" /\ p > 1
          THEN << <<ops[p - 1].m, ops[p].cp>> >> ELSE <<>>)
           \o DrawsOf(ops, p + 1)

\* The draws the claim expects of one run from record k on: for each record
\* with a valid code point, the run's base matrix with its translation
\* replaced by the record's own offset.
RECURSIVE C11_RunDraws(_, _)
C11_RunDraws(run, k) ==
    IF k > Len(run.cs) THEN <<>>
    ELSE (IF IsChar(run.cs[k][5])
          THEN << << <<run.mt[1], run.mt[2], run.mt[3], run.mt[4],
                       run.cs[k][1], run.cs[k][2]>>, run.cs[k][5] >> >>
          ELSE <<>>)
           \o C11_RunDraws(run, k + 1)

RECURSIVE C11_PageDraws(_, _)
C11_PageDraws(data, r) ==
    IF r > Len(data) THEN <<>>
    ELSE C11_RunDraws(data[r], 1) \o C11_PageDraws(data, r + 1)

\* C11: on every composited page of index >= 1 the text layer draws exactly
\* the page's glyph records with a valid code point, in run order then record
\* order, each at its own run's base matrix with the translation replaced by
\* its own offset; invalid code points are skipped and change nothing after
\* them, and every draw directly follows the setting of its matrix.
C11_TextLayerExact ==
    \A n \in 2..Len(pages) :
        IsComplete(pages[n]) =>
            /\ HasTxt(n - 1) /\ TxtOf(n - 1).st = "ok"
            /\ DrawsOf(pages[n].ops, 1) = C11_PageDraws(TxtOf(n - 1).data, 1)
            /\ \A p \in 1..Len(pages[n].ops) :
                  pages[n].ops[p].op = "write_text" =>
                      (p > 1 /\ pages[n].ops[p - 1].op = "set_text_matrix")

\* A composited page whose annotations hold two runs, the first with an
\* invalid code point between two valid ones.
C11_Witness ==
    /\ Len(pages) >= 2
    /\ IsComplete(pages[2])
    /\ HasTxt(1) /\ TxtOf(1).data = <<RunA, RunB>>
    /\ Len(DrawsOf(pages[2].ops, 1)) = 3

C12_PairOnly ==
    /\ Cardinality(outstanding) <= 2
    /\ \A r \in outstanding : r.idx = i
    /\ Cardinality(outstanding) = 2 =>
          outstanding = {Request("image", i), Request("texts", i)}
    /\ outstanding # {} => pc \in {"boot_wait", "join"}

C12_JoinedBeforeAdvancing ==
    /\ requests' # requests =>
          /\ outstanding = {}
          /\ i >= 2 => (HasImg(i - 1) /\ HasTxt(i - 1))
    /\ pages' # pages =>
          /\ outstanding' = {}
          /\ i >= 1 => (outstanding = {} /\ HasImg(i) /\ HasTxt(i))

\* C12: at most two requests are outstanding, and two only as the image and
\* annotation requests of the current index; requests are issued, and the
\* page of an index composited, only when nothing is outstanding, so index
\* N+1 is requested only after both answers of N, in whichever order.
C12_TwoOutstandingJoined == [](C12_PairOnly) /\ [][C12_JoinedBeforeAdvancing]_vars

\* Both requests of index 2 outstanding.
C12_Witness ==
    /\ i = 2
    /\ outstanding = {Request("image", 2), Request("texts", 2)}
    /\ Len(pages) = 2

C13_BootAlone ==
    /\ requests # <<>> => requests[1] = Request("image", 0)
    /\ \A k \in 2..Len(requests) : requests[k].idx >= 1
    /\ pc = "boot_wait" => (requests = <<Request("image", 0)>>
                             /\ outstanding = {Request("image", 0)})
    /\ Len(pages) >= 1 =>
          /\ pages[1].from = 0
          /\ pages[1].ops = <<>>
          /\ i >= 1 => pages[1].image
    /\ \A n \in 2..Len(pages) :
          /\ HasImg(n - 1) /\ HasTxt(n - 1)
          /\ pages[n].from = n - 1

C13_PagesFromJoinedPair ==
    Len(pages') > Len(pages) =>
        \/ (Len(pages) = 0 /\ pc = "boot_wait" /\ i = 0)
        \/ /\ pc = "join" /\ outstanding = {}
           /\ i >= 1 /\ Len(pages) = i
           /\ HasImg(i) /\ HasTxt(i)

\* C13: index 0 is handled alone: its image is the only request of index 0
\* and the first request of the run, no annotation request of index 0 is ever
\* issued, page 0 carries the image and no text operation, and every later
\* page is created only in Streaming, once both answers of its index are in.
C13_BootstrapDiffers == [](C13_BootAlone) /\ [][C13_PagesFromJoinedPair]_vars

\* Page 0 with its image and no text layer next to a page composited from a
\* joined pair.
C13_Witness ==
    /\ Len(pages) = 2
    /\ pages[1].image /\ pages[1].ops = <<>>
    /\ IsComplete(pages[2])
    /\ Len(DrawsOf(pages[2].ops, 1)) >= 1
    /\ requests = <<Request("image", 0), Request("image", 1), Request("texts", 1)>>

\* C14 as stated: a loop that no break and no error stopped has visited the
\* maximum value of the index type.
C14_VisitsMaxIndex ==
    (i = MaxIndex /\ pc \in {"saving", "serialize", "exit"}) =>
        \E k \in 1..Len(requests) : requests[k].idx = MaxIndex

C14_IndexBounded ==
    /\ i <= MaxIndex
    /\ \A k \in 1..Len(requests) : requests[k].idx < MaxIndex
    /\ \A k \in 1..(Len(requests) - 1) :
          requests[k + 1].idx \in {requests[k].idx, requests[k].idx + 1}
    /\ i >= 1 => \A n \in 1..(i - 1) :
          \E k \in 1..Len(requests) : requests[k] = Request("image", n)

C14_IndexStep ==
    /\ i' = i \/ i' = i + 1
    /\ (Finished => Finished') /\ (Aborted => Aborted')

\* C14 amended: provided every issued request eventually returns, every run
\* eventually reaches Finished or Aborted and stays there; the index only
\* increases, by one per Streaming step; Streaming visits 1, 2, 3, ... up to
\* the maximum value of the index type minus one (the range excludes the
\* maximum, which is never requested) unless stopped earlier; and when every
\* page up to that bound decodes the loop still ends, the run is Finished and
\* serializes.
C14_TerminatesBelowMax ==
    /\ [](C14_IndexBounded)
    /\ [][C14_IndexStep]_vars
    /\ (pc = "run") ~> (Finished \/ Aborted)
    /\ (i = MaxIndex) ~> (pc = "exit" /\ Finished /\ saveCalls = 1)

\* The loop ran to exhaustion and the document of MaxIndex pages was saved.
C14_Witness ==
    /\ pc = "exit"
    /\ i = MaxIndex
    /\ error = "none"
    /\ saveCalls = 1
    /\ Len(sink.bytes) = MaxIndex
    /\ NumProgress = MaxIndex - 1

TextsErrors == {"texts_fetch", "texts_outer", "texts_inner"}

\* C15: when the image of an index K >= 1 is fetched but does not decode,
\* the run that has ended is Finished with the K pages saved and no error,
\* whatever the annotation request of K answered; an annotation error aborts
\* the run only at an index whose image decoded.
C15_AnnotationIgnoredAtEnd ==
    /\ \A K \in StreamIndices :
          (pc = "exit" /\ HasImg(K) /\ HasTxt(K) /\ ImgOf(K).st = "ok"
              /\ ~Decodes(ImgOf(K).body)) =>
              /\ Finished
              /\ error = "none"
              /\ Len(sink.bytes) = K
    /\ (Aborted /\ error \in TextsErrors) =>
          (HasImg(i) /\ ImgOf(i).st = "ok" /\ Decodes(ImgOf(i).body))

C16_CountsAgree ==
    (Finished /\ i >= 1 /\ HasImg(i) /\ ImgOf(i).st = "ok"
        /\ ~Decodes(ImgOf(i).body)) =>
        /\ NumProgress = i
        /\ \A k \in 1..i : IsProgress(stdout[k]) /\ stdout[k].n = k
        /\ Len(pages) = i /\ CompletePages = i
        /\ (pc = "exit" /\ error = "none") =>
              (Len(sink.bytes) = i /\ sink.bytes = pages)

C16_PrintedAtCount ==
    (Len(stdout') = Len(stdout) + 1 /\ IsProgress(stdout'[Len(stdout')])) =>
        /\ Len(pages) = stdout'[Len(stdout')].n
        /\ pages' = pages
        /\ CompletePages = Len(pages)

\* C16: in every run Finished by the decode failure of the image of an index
\* K >= 1, exactly K progress lines were printed, numbered 1..K in order, so
\* the last number equals the page count of the saved document; and whenever
\* the line numbered n is printed the document holds exactly n pages.
C16_ProgressMatchesPages == [](C16_CountsAgree) /\ [][C16_PrintedAtCount]_vars

\* Finished at index 2 whose image was not a PNG: two lines, two pages saved.
C16_Witness ==
    /\ pc = "exit" /\ error = "none"
    /\ i = 2
    /\ HasImg(2) /\ ImgOf(2).st = "ok" /\ ~PngDecoderNew(ImgOf(2).body)
    /\ stdout = <<ProgressLine(1), ProgressLine(2), SavingLine>>
    /\ Len(sink.bytes) = 2

====
